---- MODULE Spec2Model ----
(***************************************************************************)
(* Model of app.py: a Flask application with one route, "/" -> index,      *)
(* started with app.run(host="0.0.0.0", port=8000) when the module is the  *)
(* main entry point.                                                       *)
(*                                                                         *)
(* The module body is modelled statement by statement (pc), the framework  *)
(* calls it makes (Flask(__name__), app.route, app.run) by their effect on *)
(* the application object and the process, and request handling by the     *)
(* framework's dispatch over the url map the module has built.             *)
(*                                                                         *)
(* A URL path is modelled as the sequence of its segments: "/" is << >>,   *)
(* "/nonexistent" is <<"nonexistent">>, "/static/app.css" is               *)
(* <<"static", "app.css">>.  The query string is a separate field of the   *)
(* request and takes no part in routing.                                   *)
(***************************************************************************)
EXTENDS Naturals, Sequences, FiniteSets, Bags, TLC

VARIABLES
    name,           \* __name__ of the module: "__main__" or "app" (imported)
    pc,             \* position in the module body / state of the process
    url_map,        \* app.url_map: the set of registered rules
    view_functions, \* app.view_functions: endpoint -> view
    listener,       \* the bound listening socket, or NoListener
    portFree,       \* environment: TRUE iff no other process holds port 8000
    bindAttempts,   \* number of bind() calls this process has made
    exitcode,       \* how the process ended, NoExit while it runs
    inflight,       \* bag of requests accepted and not yet answered
    log             \* sequence of completed exchanges

vars == <<name, pc, url_map, view_functions, listener, portFree,
          bindAttempts, exitcode, inflight, log>>

----------------------------------------------------------------------------
(* Bounds *)

MaxRequests == 2

----------------------------------------------------------------------------
(* Inputs *)

Methods == {"GET", "HEAD", "OPTIONS", "POST"}

RootPath == << >>

Paths == {RootPath, <<"nonexistent">>, <<"static", "app.css">>}

Queries == {"", "a=5&b=3"}

HeaderSets == {"", "X-Debug: 1"}

Bodies == {"", "9"}

\* Requests: every method and path; at most one of query, headers, body
\* differs from the empty default.
Requests ==
    {r \in [method : Methods, path : Paths, query : Queries,
            headers : HeaderSets, body : Bodies] :
        \/ r.headers = "" /\ r.body = ""
        \/ r.query = "" /\ r.body = ""
        \/ r.query = "" /\ r.headers = ""}

----------------------------------------------------------------------------
(* The program's constants *)

NoListener == [host |-> "", port |-> 0]

NoExit == "running"

\* the view computing the sum instead of returning the literal
index_computed == "8"

\* app.py:6, the literal the view returns
index == "5 + 3 = 8"

\* app.py:9
HOST == "0.0.0.0"

PORT == 8000

\* content type of a response made from a str return value
default_mimetype == "text/html; charset=utf-8"

\* files under the application's static folder: the repository ships none
static_files == {}

StaticRule ==
    [rule |-> <<"static", "<path:filename>">>, endpoint |-> "static",
     methods |-> {"GET", "HEAD", "OPTIONS"}]

IndexRule ==
    [rule |-> RootPath, endpoint |-> "index",
     methods |-> {"GET", "HEAD", "OPTIONS"}]

----------------------------------------------------------------------------
(* Request dispatch over the application object built by app.py *)

\* a rule matching every path it is a prefix of
RECURSIVE rule_match_prefix(_, _)
rule_match_prefix(rule, path) ==
    IF rule = << >> THEN TRUE
    ELSE IF Head(rule) = "<path:filename>" THEN Len(path) >= 1
    ELSE /\ path # << >>
         /\ Head(path) = Head(rule)
         /\ rule_match_prefix(Tail(rule), Tail(path))

\* Does the rule (a sequence of parts) match the path (a sequence of
\* segments)?  A <path:...> converter consumes one or more segments.
RECURSIVE rule_match(_, _)
rule_match(rule, path) ==
    IF rule = << >> THEN path = << >>
    ELSE IF Head(rule) = "<path:filename>" THEN Len(path) >= 1
    ELSE /\ path # << >>
         /\ Head(path) = Head(rule)
         /\ rule_match(Tail(rule), Tail(path))

\* url_map.bind(...).match(path, method): the rule serving the request, or
\* MethodNotAllowed when rules match the path but none allows the method,
\* or NotFound when no rule matches the path.
match(req) ==
    LET matching == {r \in url_map : rule_match(r.rule, req.path)}
        allowed  == {r \in matching : req.method \in r.methods}
    IN  IF allowed # {}
        THEN LET r == CHOOSE x \in allowed : TRUE
             IN  [kind |-> "rule", endpoint |-> r.endpoint,
                  valid_methods |-> r.methods]
        ELSE IF matching # {}
        THEN [kind |-> "MethodNotAllowed", endpoint |-> "",
              valid_methods |-> UNION {r.methods : r \in matching}]
        ELSE [kind |-> "NotFound", endpoint |-> "",
              valid_methods |-> {}]

\* a str return value sent as JSON
make_response_json(rv) ==
    [status |-> 200, body |-> rv, content_type |-> "application/json",
     allow |-> {}]

\* the response made from a view's str return value
make_response(rv) ==
    [status |-> 200, body |-> rv, content_type |-> default_mimetype,
     allow |-> {}]

\* the framework's response for an HTTP error
error_response(code, valid_methods) ==
    [status |-> code,
     body |-> IF code = 404 THEN "<!doctype html> 404 Not Found"
              ELSE "<!doctype html> 405 Method Not Allowed",
     content_type |-> default_mimetype,
     allow |-> valid_methods]

\* the framework's built-in static view
send_static_file(filename) ==
    IF filename \in static_files
    THEN [status |-> 200, body |-> "file", content_type |-> "text/css",
          allow |-> {}]
    ELSE error_response(404, {})

\* a view counting its visits: the body depends on the requests served
call_view_counting(endpoint, req) ==
    IF view_functions[endpoint] = "index"
    THEN make_response(IF Len(log) = 0 THEN index ELSE "visit again")
    ELSE send_static_file(Tail(req.path))

\* a view computing its body from the query string
call_view_query(endpoint, req) ==
    IF view_functions[endpoint] = "index"
    THEN make_response(IF req.query = "" THEN index ELSE req.query)
    ELSE send_static_file(Tail(req.path))

\* calling the view function registered for the endpoint
call_view(endpoint, req) ==
    IF view_functions[endpoint] = "index"
    THEN make_response(index)
    ELSE send_static_file(Tail(req.path))

\* Flask.dispatch_request with the error handling of full_dispatch_request:
\* routing errors become error responses, OPTIONS on a matched rule is
\* answered automatically, anything else calls the view.
dispatch_request(req) ==
    LET m == match(req)
    IN  IF m.kind = "NotFound" THEN error_response(404, {})
        ELSE IF m.kind = "MethodNotAllowed"
        THEN error_response(405, m.valid_methods)
        ELSE IF req.method = "OPTIONS"
        THEN [status |-> 200, body |-> "",
              content_type |-> default_mimetype,
              allow |-> m.valid_methods]
        ELSE call_view(m.endpoint, req)

\* the view function the request causes to be called, "none" if none is
invoked(req) ==
    LET m == match(req)
    IN  IF m.kind = "rule" /\ req.method # "OPTIONS"
        THEN view_functions[m.endpoint]
        ELSE "none"

\* the body of the response to a HEAD request sent like that of a GET
wsgi_app_head_body(req) == dispatch_request(req)

\* app.wsgi_app: the response the client receives; the body of the response
\* to a HEAD request is not sent.
wsgi_app(req) ==
    LET resp == dispatch_request(req)
    IN  IF req.method = "HEAD" THEN [resp EXCEPT !.body = ""] ELSE resp

----------------------------------------------------------------------------
(* The module body *)

Init ==
    /\ name \in {"__main__", "app"}
    /\ pc = "line2"
    /\ url_map = {}
    /\ view_functions = << >>
    /\ listener = NoListener
    /\ portFree \in BOOLEAN
    /\ bindAttempts = 0
    /\ exitcode = NoExit
    /\ inflight = EmptyBag
    /\ log = << >>

\* app.py:2  app = Flask(__name__): a new application; the constructor
\* registers the built-in static route.
CreateApp ==
    /\ pc = "line2"
    /\ url_map' = {StaticRule}
    /\ view_functions' = ("static" :> "send_static_file")
    /\ pc' = "line4"
    /\ UNCHANGED <<name, listener, portFree, bindAttempts, exitcode,
                   inflight, log>>

\* app.py:4-6  @app.route("/") def index(): ...
route ==
    /\ pc = "line4"
    /\ url_map' = url_map \cup {IndexRule}
    /\ view_functions' = ("index" :> "index") @@ view_functions
    /\ pc' = "line8"
    /\ UNCHANGED <<name, listener, portFree, bindAttempts, exitcode,
                   inflight, log>>

\* the listener started without the entry-point guard
main_guard_always ==
    /\ pc = "line8"
    /\ pc' = "line9"
    /\ UNCHANGED <<name, url_map, view_functions, listener, portFree,
                   bindAttempts, exitcode, inflight, log>>

\* app.py:8  if __name__ == "__main__":
main_guard ==
    /\ pc = "line8"
    /\ pc' = IF name = "__main__" THEN "line9" ELSE "imported"
    /\ UNCHANGED <<name, url_map, view_functions, listener, portFree,
                   bindAttempts, exitcode, inflight, log>>

\* app.run() with the framework's default address
run_default ==
    /\ pc = "line9"
    /\ bindAttempts' = bindAttempts + 1
    /\ IF portFree
       THEN /\ listener' = [host |-> "127.0.0.1", port |-> 5000]
            /\ portFree' = FALSE
            /\ pc' = "serving"
            /\ exitcode' = exitcode
       ELSE /\ pc' = "exited"
            /\ exitcode' = "1"
            /\ UNCHANGED <<listener, portFree>>
    /\ UNCHANGED <<name, url_map, view_functions, inflight, log>>

\* app.run retrying a failed bind once before giving up
run_retry ==
    /\ pc = "line9"
    /\ bindAttempts' = bindAttempts + 1
    /\ IF portFree
       THEN /\ listener' = [host |-> HOST, port |-> PORT]
            /\ portFree' = FALSE
            /\ pc' = "serving"
            /\ exitcode' = exitcode
       ELSE /\ pc' = IF bindAttempts = 0 THEN "line9" ELSE "exited"
            /\ exitcode' = IF bindAttempts = 0 THEN exitcode ELSE "1"
            /\ UNCHANGED <<listener, portFree>>
    /\ UNCHANGED <<name, url_map, view_functions, inflight, log>>

\* app.py:9  app.run(host="0.0.0.0", port=8000): bind the listening socket;
\* serve if the bind succeeds, exit with status 1 if it fails.
run ==
    /\ pc = "line9"
    /\ bindAttempts' = bindAttempts + 1
    /\ IF portFree
       THEN /\ listener' = [host |-> HOST, port |-> PORT]
            /\ portFree' = FALSE
            /\ pc' = "serving"
            /\ exitcode' = exitcode
       ELSE /\ pc' = "exited"
            /\ exitcode' = "1"
            /\ UNCHANGED <<listener, portFree>>
    /\ UNCHANGED <<name, url_map, view_functions, inflight, log>>

----------------------------------------------------------------------------
(* Serving *)

\* Requests reach the application through the listener when app.py is the
\* main program, and through the importing host (a WSGI server, a test
\* client) when it is imported.
Accepting == pc \in {"serving", "imported"}

\* a request arrives; the server handles requests concurrently
Receive(req) ==
    /\ Accepting
    /\ BagCardinality(inflight) + Len(log) < MaxRequests
    /\ inflight' = inflight (+) SetToBag({req})
    /\ UNCHANGED <<name, pc, url_map, view_functions, listener, portFree,
                   bindAttempts, exitcode, log>>

\* a handler that unregisters a route once it has served a not-found
Handle_unregister(req) ==
    /\ Accepting
    /\ BagIn(req, inflight)
    /\ inflight' = inflight (-) SetToBag({req})
    /\ log' = Append(log, [request |-> req, response |-> wsgi_app(req),
                           invoked |-> invoked(req)])
    /\ url_map' = IF wsgi_app(req).status = 404
                  THEN url_map \ {StaticRule} ELSE url_map
    /\ UNCHANGED <<name, pc, view_functions, listener, portFree,
                   bindAttempts, exitcode>>

\* a request in flight is dispatched and answered
Handle(req) ==
    /\ Accepting
    /\ BagIn(req, inflight)
    /\ inflight' = inflight (-) SetToBag({req})
    /\ log' = Append(log, [request |-> req, response |-> wsgi_app(req),
                           invoked |-> invoked(req)])
    /\ UNCHANGED <<name, pc, url_map, view_functions, listener, portFree,
                   bindAttempts, exitcode>>

\* the serving process is terminated from outside (SIGINT, kill); requests
\* in flight get no answer
Terminate ==
    /\ pc = "serving"
    /\ pc' = "killed"
    /\ exitcode' = "signal"
    /\ listener' = NoListener
    /\ portFree' = TRUE
    /\ inflight' = EmptyBag
    /\ UNCHANGED <<name, url_map, view_functions, bindAttempts, log>>

\* environment: another process takes or releases port 8000.  It matters to
\* this program until its bind, and after a failed bind.
OtherProcess ==
    /\ pc \in {"line2", "line4", "line8", "line9", "exited"}
    /\ portFree' = ~portFree
    /\ UNCHANGED <<name, pc, url_map, view_functions, listener,
                   bindAttempts, exitcode, inflight, log>>

Next ==
    \/ CreateApp
    \/ route
    \/ main_guard
    \/ run
    \/ \E req \in Requests : Receive(req)
    \/ \E req \in Requests : Handle(req)
    \/ Terminate
    \/ OtherProcess

Spec == Init /\ [][Next]_vars

----------------------------------------------------------------------------
(* Properties *)

Exchanges == {log[i] : i \in DOMAIN log}

IsGetRoot(req) == req.method = "GET" /\ req.path = RootPath

\* C1: every GET request whose path is exactly "/" is answered with status
\* 200 and the body "5 + 3 = 8".
C1_GetRoot ==
    \A x \in Exchanges :
        IsGetRoot(x.request) =>
            x.response.status = 200 /\ x.response.body = "5 + 3 = 8"

C1_Witness ==
    \E x \in Exchanges : IsGetRoot(x.request) /\ x.request.query = ""
                         /\ x.request.headers = "" /\ x.request.body = ""

\* C2: the response to GET / is constant across requests: after any sequence
\* or interleaving of earlier requests, the next GET / (whatever its query,
\* headers and body) receives 200 and "5 + 3 = 8", and every request already
\* answered would receive the same response again.
C2_ConstantAcrossRequests ==
    Accepting =>
        /\ \A r \in {q \in Requests : IsGetRoot(q)} :
              /\ wsgi_app(r).status = 200
              /\ wsgi_app(r).body = "5 + 3 = 8"
        /\ \A x \in Exchanges : wsgi_app(x.request) = x.response

C2_Witness ==
    /\ Len(log) >= 2
    /\ IsGetRoot(log[Len(log)].request)
    /\ log[Len(log)].response.body = "5 + 3 = 8"
    /\ ~IsGetRoot(log[1].request)

\* C3 as stated: every request whose path is not "/" gets a status other
\* than 200 and a body other than the fixed string, and index is not called.
C3_Original ==
    \A x \in Exchanges :
        x.request.path # RootPath =>
            /\ x.response.status # 200
            /\ x.response.body # "5 + 3 = 8"
            /\ x.invoked # "index"

\* C3 amended: for every request whose path is not "/", the body is not the
\* fixed string and index is not called; the status is not 200 unless the
\* request is an OPTIONS request to a path under /static/, which the
\* built-in static route answers automatically with 200 and an empty body.
C3_OtherPaths ==
    \A x \in Exchanges :
        x.request.path # RootPath =>
            /\ x.response.body # "5 + 3 = 8"
            /\ x.invoked # "index"
            /\ x.response.status = 200 =>
                  /\ x.request.method = "OPTIONS"
                  /\ Head(x.request.path) = "static"
                  /\ x.response.body = ""

C3_Witness ==
    /\ \E x \in Exchanges :
          /\ x.request.method = "GET"
          /\ x.request.path = <<"nonexistent">>
          /\ x.response.status = 404
    /\ \E x \in Exchanges :
          /\ x.request.method = "OPTIONS"
          /\ x.request.path = <<"static", "app.css">>

\* C4: run as the main entry point, the program listens on 0.0.0.0:8000, and
\* once it is listening only termination from outside ends the serving: no
\* request and no response makes it stop listening or exit.
C4_ServesUntilTerminated ==
    /\ [](pc = "serving" =>
            name = "__main__" /\ listener = [host |-> "0.0.0.0", port |-> 8000])
    /\ [][pc = "serving" =>
            \/ pc' = "serving" /\ listener' = listener /\ exitcode' = NoExit
            \/ pc' = "killed" /\ exitcode' = "signal"]_vars

C4_Witness ==
    /\ pc = "serving"
    /\ \E x \in Exchanges : x.response.status = 404
    /\ \E x \in Exchanges : x.response.status = 200

\* C5: the response depends only on method and path: two requests with the
\* same method and path, whatever their headers, query string and body,
\* receive the same status and the same body.
C5_OnlyRoutingMatters ==
    \A x, y \in Exchanges :
        (x.request.method = y.request.method
            /\ x.request.path = y.request.path) =>
        (x.response.status = y.response.status
            /\ x.response.body = y.response.body)

C5_Witness ==
    \E x, y \in Exchanges :
        /\ IsGetRoot(x.request) /\ IsGetRoot(y.request)
        /\ x.request.query # y.request.query
        /\ x.response.body = "5 + 3 = 8"
        /\ y.response.body = "5 + 3 = 8"

\* C6: a failed bind terminates the process: the bind is attempted once,
\* never retried, and after a failed bind the process stays exited and never
\* listens, even when the port becomes free.
C6_NoRetry ==
    /\ [](bindAttempts <= 1)
    /\ [](exitcode = "1" => pc = "exited" /\ listener = NoListener)
    /\ [][pc = "exited" => pc' = "exited" /\ bindAttempts' = bindAttempts]_vars

C6_Witness ==
    pc = "exited" /\ exitcode = "1" /\ portFree /\ bindAttempts = 1

\* the routes the program registers, next to the framework's built-in one
AppRoutes == {r \in url_map : r.endpoint # "static"}

C8_ContentType ==
    \A x \in Exchanges :
        (IsGetRoot(x.request) /\ x.response.status = 200) =>
            x.response.content_type \in {"text/plain", default_mimetype}

C8_Witness ==
    \E x \in Exchanges :
        /\ IsGetRoot(x.request)
        /\ x.response.status = 200
        /\ x.response.content_type = default_mimetype

\* C9: a request to "/" whose method is not GET does not receive the fixed
\* string as its body, and if the route does not allow the method (POST)
\* its status is not 200.
C9_OtherMethods ==
    \A x \in Exchanges :
        (x.request.path = RootPath /\ x.request.method # "GET") =>
            /\ x.response.body # "5 + 3 = 8"
            /\ x.request.method \notin {"GET", "HEAD", "OPTIONS"} =>
                  x.response.status # 200

C9_Witness ==
    /\ \E x \in Exchanges :
          /\ x.request.path = RootPath /\ x.request.method = "HEAD"
          /\ x.invoked = "index"
    /\ \E x \in Exchanges :
          /\ x.request.path = RootPath /\ x.request.method = "POST"
          /\ x.response.status = 405

\* C10: imported as a module, the program registers the route "/" on app
\* but binds no socket and starts no server loop.
C10_ImportedNoListener ==
    name # "__main__" =>
        /\ listener = NoListener
        /\ bindAttempts = 0
        /\ pc \notin {"line9", "serving", "exited", "killed"}
        /\ pc = "imported" => IndexRule \in url_map

C10_Witness ==
    /\ name = "app"
    /\ pc = "imported"
    /\ \E x \in Exchanges : IsGetRoot(x.request) /\ x.response.status = 200
    /\ listener = NoListener

====
